---- MODULE Spec2Model ----
(***************************************************************************)
(* Model of bot.py: the taste-profile store (SQLite tables), the           *)
(* onboarding / calibration handlers, the recommendation engine and the    *)
(* subscription worker.  Display strings (titles, captions) are left out;  *)
(* every table keeps the columns the code branches on.                     *)
(***************************************************************************)
EXTENDS Integers, Sequences, FiniteSets, Bags, TLC

(* ---------------------------------------------------------------- bounds *)
MaxNames == 3        \* names in one free-text message
MaxCalibRows == 4    \* rows of calibration_items
MaxFeedback == 5     \* rows of user_feedback
MaxResends == 1      \* calibration responses to a candidate already answered
MaxSubs == 2         \* rows of subscriptions
MaxChanges == 2      \* changes of the catalog's last_air_date per series
MaxShown == 2        \* recommendations.shown_count
MaxRecFeedback == 2  \* rows of user_feedback written from recommendation buttons
MaxRelated == 11     \* items in one favorite's related-titles result
MaxPoolRows == 12    \* rows of calibration_items when the gateway's lists are arbitrary
MaxLimit == 3        \* largest limit build_recommendations is called with directly
MaxTitles == 2       \* names in one free-text message, when the answers are explicit

(* ------------------------------------------------------------- constants *)
NULL == "NULL"
Users == {"u1"}
Genres == {18}
BatchLimit == 3      \* send_calibration_batch: limit=3
FavThreshold == 3    \* handle_await_favorites: total < 3
max_per_fav == 10    \* build_calibration_candidates default

Min(a, b) == IF a < b THEN a ELSE b
Max(a, b) == IF a > b THEN a ELSE b
Range(s) == {s[i] : i \in 1..Len(s)}
Take(s, n) == SubSeq(s, 1, Min(n, Len(s)))

(* ------------------------------------------------ the catalog behind TMDb *)
\* An item of a TMDb result list: /similar and /recommendations items carry
\* no media_type; series carry "name", movies carry "title".
\* year: int(release_date[:4]) as extract_year_from_item computes it, 0: no date.
Item(i, isTv, y) ==
    [id |-> i, media_type |-> NULL, name |-> isTv, year |-> y,
     vote_average |-> 6 + (i % 2), genre_ids |-> IF i % 2 = 1 THEN {18} ELSE {}]
\* An item of /search/multi carries media_type.
Hit(i, mt) ==
    [id |-> i, media_type |-> mt, name |-> (mt = "tv"), year |-> 0,
     vote_average |-> 0, genre_ids |-> {}]

SearchHits == {Hit(1, "movie"), Hit(2, "movie"), Hit(3, "tv"), Hit(4, "tv")}
NotFound ==
    [id |-> 0, media_type |-> NULL, name |-> FALSE, year |-> 0,
     vote_average |-> 0, genre_ids |-> {}]

Endpoints == {"similar", "recommendations"}
Ids == 1..6
MovieIds == {1, 2, 4, 5, 6}    \* ids for which GET /movie/{id} has a title
TvIds == {3, 4}              \* ids for which GET /tv/{id} has a title
MarkerSeq == <<"2024-01-01", "2024-02-01">>   \* last_air_date values, ascending
Markers == {MarkerSeq[i] : i \in 1..Len(MarkerSeq)}

\* what GET /{media_type}/{id}/{kind} holds when the call succeeds
TmdbResults(media_type, tmdb_id, kind) ==
    IF media_type = "movie" /\ tmdb_id = 1 THEN
        (IF kind = "similar"
         THEN <<Item(2, FALSE, 2010), Item(5, FALSE, 1985), Item(6, FALSE, 1980)>>
         ELSE <<>>)
    ELSE IF media_type = "tv" /\ tmdb_id = 3 THEN
        (IF kind = "similar" THEN <<Item(4, TRUE, 2020)>>
                             ELSE <<Item(4, TRUE, 2020)>>)
    ELSE <<>>

\* it.get("media_type") or ("tv" if it.get("name") else "movie")
ItemMediaType(it) ==
    IF it.media_type # NULL THEN it.media_type
    ELSE IF it.name THEN "tv" ELSE "movie"

VARIABLES
    user_states,        \* user_states.state per user (NULL: no row)
    favorites,          \* per user: rows of favorites in rowid order
    user_genres,        \* per user: set of genre ids
    user_feedback,      \* per user: the rows of user_feedback, as a bag
    calibration_items,  \* rows of calibration_items; the row id is the index
    subscriptions,      \* rows of subscriptions in rowid order
    recommendations,    \* per user: tmdb_id -> [shown_count, last_action]
    buttons,            \* per user: callback buttons the bot has sent
    tmdb_air,           \* catalog: last_air_date per series (NULL: none)
    tmdb_ver,           \* history: number of changes of tmdb_air per series
    worker_subs,        \* subscription_worker: rows of the cycle left to do
    worker_pc,          \* subscription_worker: "sleep" or "cycle"
    notified,           \* history: notifications sent by the worker
    cycle,              \* history: the worker's current cycle, see NoCycle
    calib_entered,      \* history: set_state(user, "calibration") was executed
    resends,            \* history: responses sent for candidates already answered
    last_batch,         \* result of the latest get_next_calibration_batch
    last_recs,          \* result of the latest build_recommendations of a handler
    last_call,          \* latest direct call build_recommendations(user, limit)
    last_search,        \* latest free-text message: gateway answers and replies
    threads             \* handler threads of the bot: a calib: callback in flight

vars == <<user_states, favorites, user_genres, user_feedback, calibration_items,
          subscriptions, recommendations, buttons, tmdb_air, tmdb_ver,
          worker_subs, worker_pc, notified, cycle, calib_entered, resends,
          last_batch, last_recs, last_call, last_search, threads>>

\* what only the direct calls, the explicit searches and the threaded
\* handlers change
callVars == <<last_call, last_search, threads>>

storeVars == <<favorites, user_genres, user_feedback, calibration_items,
               subscriptions, recommendations>>
workerVars == <<worker_subs, worker_pc, notified, cycle>>
catalogVars == <<tmdb_air, tmdb_ver>>

Btn(d, i, a) == [data |-> d, id |-> i, arg |-> a]

(* ------------------------------------------------------------ the store *)
count_favorites(u) == Len(favorites[u])

favorites_ids(favs) == {favs[i].tmdb_id : i \in 1..Len(favs)}

\* variant: the favorites table without UNIQUE(user_id, tmdb_id)
add_favorite_no_unique(favs, tmdb_id, media_type) ==
    Append(favs, [tmdb_id |-> tmdb_id, media_type |-> media_type])

\* INSERT OR IGNORE under UNIQUE(user_id, tmdb_id)
add_favorite(favs, tmdb_id, media_type) ==
    IF tmdb_id \in favorites_ids(favs) THEN favs
    ELSE Append(favs, [tmdb_id |-> tmdb_id, media_type |-> media_type])

toggle_user_genre(gs, gid) == IF gid \in gs THEN gs \ {gid} ELSE gs \cup {gid}

weight_map(status) ==
    CASE status = "watched" -> 1
      [] status = "unseen" -> 0
      [] status = "favorite" -> 5
      [] status = "rec_seen_like" -> 4
      [] status = "rec_seen_dislike" -> 0 - 2
      [] status = "rec_dislike" -> 0 - 5
      [] OTHER -> 0

\* user_feedback is read through sums and membership tests only; its rows are
\* kept as a bag of (tmdb_id, status, weight)
add_feedback(fb, tmdb_id, status) ==
    fb (+) SetToBag({[tmdb_id |-> tmdb_id, status |-> status,
                      weight |-> weight_map(status)]})

\* INSERT OR IGNORE, but calibration_items has no UNIQUE constraint
RECURSIVE add_calibration_items(_, _, _)
add_calibration_items(rows, u, items) ==
    IF items = <<>> THEN rows
    ELSE add_calibration_items(
             Append(rows, [user_id |-> u, tmdb_id |-> Head(items).id,
                           media_type |-> ItemMediaType(Head(items)),
                           status |-> NULL, shown |-> 0]),
             u, Tail(items))

RECURSIVE UnshownFrom(_, _, _)
UnshownFrom(rows, u, i) ==
    IF i > Len(rows) THEN <<>>
    ELSE (IF rows[i].user_id = u /\ rows[i].shown = 0 THEN <<i>> ELSE <<>>)
         \o UnshownFrom(rows, u, i + 1)

RECURSIVE RowsOfFrom(_, _, _)
RowsOfFrom(rows, u, i) ==
    IF i > Len(rows) THEN <<>>
    ELSE (IF rows[i].user_id = u THEN <<i>> ELSE <<>>) \o RowsOfFrom(rows, u, i + 1)

\* variant: the SELECT without "AND shown=0"
get_next_calibration_batch_any(rows, u, limit) == Take(RowsOfFrom(rows, u, 1), limit)

\* SELECT ... WHERE user_id=? AND shown=0 LIMIT ?  (row ids)
get_next_calibration_batch(rows, u, limit) == Take(UnshownFrom(rows, u, 1), limit)

\* UPDATE calibration_items SET shown=1 WHERE id IN (...)
mark_shown(rows, ids) ==
    [i \in 1..Len(rows) |->
        IF i \in Range(ids) THEN [rows[i] EXCEPT !.shown = 1] ELSE rows[i]]

\* UPDATE calibration_items SET status=? WHERE id=?
set_calibration_status(rows, row_id, status) ==
    [i \in 1..Len(rows) |->
        IF i = row_id THEN [rows[i] EXCEPT !.status = status] ELSE rows[i]]

\* INSERT OR IGNORE, but subscriptions has no UNIQUE constraint
add_subscription_for_tv(subs, u, tmdb_id, last_air_date) ==
    Append(subs, [user_id |-> u, tmdb_id |-> tmdb_id,
                  last_air_date |-> last_air_date, has_new |-> 0])

\* SELECT COUNT(*) ... WHERE user_id=? AND shown=1 AND status IS NULL
remaining(rows, u) ==
    Cardinality({i \in 1..Len(rows) :
        rows[i].user_id = u /\ rows[i].shown = 1 /\ rows[i].status = NULL})

(* ---------------------------------------------------------- TMDb helpers *)
\* get_similar_and_recommended when the calls in `ok` succeed
RECURSIVE ConcatEndpoints(_, _, _, _)
ConcatEndpoints(media_type, tmdb_id, kinds, ok) ==
    IF kinds = <<>> THEN <<>>
    ELSE (IF Head(kinds) \in ok THEN TmdbResults(media_type, tmdb_id, Head(kinds))
                                ELSE <<>>)
         \o ConcatEndpoints(media_type, tmdb_id, Tail(kinds), ok)

get_similar_and_recommended(media_type, tmdb_id, ok) ==
    ConcatEndpoints(media_type, tmdb_id, <<"similar", "recommendations">>, ok)

\* Outcomes of the calls made for one favorite: the sets of succeeding calls,
\* leaving out a set when a larger one yields the same result list.
OkChoices(fav) ==
    {ok \in SUBSET Endpoints :
        \A ok2 \in SUBSET Endpoints :
            (ok \subseteq ok2 /\ ok2 # ok) =>
                get_similar_and_recommended(fav.media_type, fav.tmdb_id, ok2)
                # get_similar_and_recommended(fav.media_type, fav.tmdb_id, ok)}

\* one outcome per favorite, for the favorites from position i on
RECURSIVE OkVectors(_, _)
OkVectors(favs, i) ==
    IF i > Len(favs) THEN {<<>>}
    ELSE {<<ok>> \o rest : ok \in OkChoices(favs[i]), rest \in OkVectors(favs, i + 1)}

\* get_tmdb_details("tv", id).get("last_air_date"), NULL when the call fails
details_last_air_date(tmdb_id, ok) ==
    IF ok /\ tmdb_id \in TvIds THEN tmdb_air[tmdb_id] ELSE NULL

(* ------------------------------------------------------------ onboarding *)
\* candidates: dict keyed by id, in insertion order
RECURSIVE MergeById(_, _)
MergeById(acc, items) ==
    IF items = <<>> THEN acc
    ELSE MergeById(IF \E j \in 1..Len(acc) : acc[j].id = Head(items).id
                   THEN acc ELSE Append(acc, Head(items)),
                   Tail(items))

\* the loop over the favorites; lists[i]: what get_similar_and_recommended
\* returns for favorite i
RECURSIVE CandidatesFrom(_, _, _)
CandidatesFrom(lists, i, acc) ==
    IF i > Len(lists) THEN acc
    ELSE CandidatesFrom(lists, i + 1, MergeById(acc, Take(lists[i], max_per_fav)))

\* okOf: favorite index -> set of endpoints whose call succeeds
RelatedOf(favs, okOf) ==
    [i \in 1..Len(favs) |->
        get_similar_and_recommended(favs[i].media_type, favs[i].tmdb_id, okOf[i])]

build_calibration_candidates(favs, okOf) ==
    CandidatesFrom(RelatedOf(favs, okOf), 1, <<>>)

CalibButtons(ids) ==
    {Btn("calib", ids[i], s) : i \in 1..Len(ids), s \in {"watched", "unseen", "favorite"}}

GenreButtons == {Btn("genre", g, NULL) : g \in Genres} \cup {Btn("genre_done", 0, NULL)}

\* variant: the empty batch does not reset the state
send_calibration_batch_keep(u, rows, states) ==
    LET batch == get_next_calibration_batch(rows, u, BatchLimit) IN
    /\ last_batch' = [pending |-> remaining(rows, u), rows |-> batch,
                      was_shown |-> {r \in Range(batch) : rows[r].shown = 1}]
    /\ calibration_items' = mark_shown(rows, batch)
    /\ user_states' = states
    /\ buttons' = [buttons EXCEPT ![u] = @ \cup CalibButtons(batch)]

\* send_calibration_batch, run on the rows `rows` and the states `states`
\* that the handler has written so far
send_calibration_batch(u, rows, states) ==
    LET batch == get_next_calibration_batch(rows, u, BatchLimit) IN
    /\ last_batch' = [pending |-> remaining(rows, u), rows |-> batch,
                      was_shown |-> {r \in Range(batch) : rows[r].shown = 1}]
    /\ calibration_items' = mark_shown(rows, batch)
    /\ IF batch = <<>>
       THEN /\ user_states' = [states EXCEPT ![u] = NULL]
            /\ buttons' = buttons
       ELSE /\ user_states' = states
            /\ buttons' = [buttons EXCEPT ![u] = @ \cup CalibButtons(batch)]

\* /start
handle_start(u) ==
    /\ user_states' = [user_states EXCEPT ![u] =
           IF count_favorites(u) = 0 THEN "await_favorites" ELSE NULL]
    /\ UNCHANGED <<storeVars, buttons, catalogVars, workerVars,
                   calib_entered, resends, last_batch, last_recs, callVars>>

RECURSIVE AddResolved(_, _)
AddResolved(favs, results) ==
    IF results = <<>> THEN favs
    ELSE AddResolved(IF Head(results) = NotFound THEN favs
                     ELSE add_favorite(favs, Head(results).id,
                                       ItemMediaType(Head(results))),
                     Tail(results))

\* free text in state await_favorites without what the message records;
\* results[i] is what search_tmdb_multi returns for the i-th name
\* (NotFound: None)
await_favorites(u, results) ==
    /\ user_states[u] = "await_favorites"
    /\ LET favs == AddResolved(favorites[u], results) IN
       /\ favorites' = [favorites EXCEPT ![u] = favs]
       /\ IF Len(favs) < FavThreshold
          THEN UNCHANGED <<user_states, buttons>>
          ELSE /\ user_states' = [user_states EXCEPT ![u] = "genre_select"]
               /\ buttons' = [buttons EXCEPT ![u] = @ \cup GenreButtons]
    /\ UNCHANGED <<user_genres, user_feedback, calibration_items, subscriptions,
                   recommendations, catalogVars, workerVars, calib_entered, resends,
                   last_batch, last_recs>>

\* free text in state await_favorites, by the results of the searches
handle_await_favorites(u, results) ==
    await_favorites(u, results) /\ UNCHANGED callVars

\* the answer of tmdb_get("/search/multi", ...): Failed is None
Failed == [ok |-> FALSE, results |-> <<>>]
Found(results) == [ok |-> TRUE, results |-> results]

RECURSIVE FirstTitle(_)
FirstTitle(results) ==
    IF results = <<>> THEN NotFound
    ELSE IF Head(results).media_type \in {"movie", "tv"} THEN Head(results)
    ELSE FirstTitle(Tail(results))

search_tmdb_multi(data) ==
    IF ~data.ok \/ data.results = <<>> THEN NotFound ELSE FirstTitle(data.results)

\* no free-text message has been recorded
NoSearch == [answers |-> <<>>, results |-> <<>>, replies |-> <<>>]

\* free text in state await_favorites, by the gateway's answers to the
\* searches; replies[i]: the message sent for the i-th name
handle_await_favorites_answers(u, answers) ==
    LET results == [i \in 1..Len(answers) |-> search_tmdb_multi(answers[i])] IN
    /\ await_favorites(u, results)
    /\ last_search' = [answers |-> answers,
                       results |-> results,
                       replies |-> [i \in 1..Len(answers) |->
                                      IF results[i] = NotFound
                                      THEN "not_found" ELSE "added"]]
    /\ UNCHANGED <<last_call, threads>>

\* callback genre:<gid>
handle_callback_genre(u, gid) ==
    /\ Btn("genre", gid, NULL) \in buttons[u]
    /\ user_genres' = [user_genres EXCEPT ![u] = toggle_user_genre(@, gid)]
    /\ UNCHANGED <<user_states, favorites, user_feedback, calibration_items,
                   subscriptions, recommendations, buttons, catalogVars,
                   workerVars, calib_entered, resends, last_batch, last_recs, callVars>>

\* callback genre_done, the favorites' related titles being `lists`; cap: the
\* rows of calibration_items the model holds
genre_done_with(u, lists, cap) ==
    /\ Btn("genre_done", 0, NULL) \in buttons[u]
    /\ LET pool == CandidatesFrom(lists, 1, <<>>)
           rows == add_calibration_items(calibration_items, u, pool) IN
       /\ Len(rows) <= cap
       /\ calib_entered' = [calib_entered EXCEPT ![u] = TRUE]
       /\ send_calibration_batch(u, rows, [user_states EXCEPT ![u] = "calibration"])
    /\ UNCHANGED <<favorites, user_genres, user_feedback, subscriptions,
                   recommendations, catalogVars, workerVars, resends, last_recs, callVars>>

\* callback genre_done; okOf: which related-title calls succeed, per favorite
handle_callback_genre_done(u, okOf) ==
    genre_done_with(u, RelatedOf(favorites[u], okOf), MaxCalibRows)

\* callback calib:<row_id>:<status>; ok: the details call succeeds
handle_callback_calib(u, row_id, status, ok) ==
    /\ Btn("calib", row_id, status) \in buttons[u]
    /\ BagCardinality(user_feedback[u]) < MaxFeedback
    /\ calibration_items[row_id].status # NULL => resends[u] < MaxResends
    /\ resends' = [resends EXCEPT ![u] =
                      IF calibration_items[row_id].status # NULL THEN @ + 1 ELSE @]
    /\ LET rows == set_calibration_status(calibration_items, row_id, status)
           row == calibration_items[row_id]
           follows == status = "favorite" /\ row.media_type = "tv" IN
       /\ user_feedback' = [user_feedback EXCEPT ![u] =
                               add_feedback(@, row.tmdb_id, status)]
       /\ favorites' = [favorites EXCEPT ![u] =
              IF status = "favorite" THEN add_favorite(@, row.tmdb_id, row.media_type)
              ELSE @]
       /\ follows => Len(subscriptions) < MaxSubs
       /\ subscriptions' =
              IF follows
              THEN add_subscription_for_tv(subscriptions, u, row.tmdb_id,
                                           details_last_air_date(row.tmdb_id, ok))
              ELSE subscriptions
       /\ (~follows) => ok
       /\ IF remaining(rows, u) = 0 /\ user_states[u] = "calibration"
          THEN send_calibration_batch(u, rows, user_states)
          ELSE /\ calibration_items' = rows
               /\ UNCHANGED <<user_states, buttons, last_batch>>
    /\ UNCHANGED <<user_genres, recommendations, catalogVars, workerVars,
                   calib_entered, last_recs, callVars>>

\* TeleBot runs the handlers on its worker threads (threaded=True, two
\* workers by default), so two calib: callbacks are handled at once. A
\* thread's record: pc, the user, the COUNT it read, the rows its SELECT
\* returned, the rows it presented, and whether another callback was in
\* flight during this one.
Threads == {"t1", "t2"}
Idle == [pc |-> "idle", user |-> NULL, remaining |-> 0, batch |-> <<>>,
         sent |-> <<>>, overlap |-> FALSE]
InFlight(t) == threads[t].pc # "idle"

\* calib: on thread t, up to the second commit: set_calibration_status, the
\* SELECT of the row, add_feedback and, for "favorite", add_favorite and
\* add_subscription_for_tv
calib_store(t, u, row_id, status, ok) ==
    /\ ~InFlight(t)
    /\ Btn("calib", row_id, status) \in buttons[u]
    /\ BagCardinality(user_feedback[u]) < MaxFeedback
    /\ calibration_items[row_id].status # NULL => resends[u] < MaxResends
    /\ resends' = [resends EXCEPT ![u] =
                      IF calibration_items[row_id].status # NULL THEN @ + 1 ELSE @]
    /\ LET row == calibration_items[row_id]
           follows == status = "favorite" /\ row.media_type = "tv" IN
       /\ calibration_items' = set_calibration_status(calibration_items, row_id, status)
       /\ user_feedback' = [user_feedback EXCEPT ![u] =
                               add_feedback(@, row.tmdb_id, status)]
       /\ favorites' = [favorites EXCEPT ![u] =
              IF status = "favorite" THEN add_favorite(@, row.tmdb_id, row.media_type)
              ELSE @]
       /\ follows => Len(subscriptions) < MaxSubs
       /\ subscriptions' =
              IF follows
              THEN add_subscription_for_tv(subscriptions, u, row.tmdb_id,
                                           details_last_air_date(row.tmdb_id, ok))
              ELSE subscriptions
       /\ (~follows) => ok
    /\ threads' = [o \in Threads |->
                      IF o = t
                      THEN [Idle EXCEPT !.pc = "count", !.user = u,
                                        !.overlap = \E x \in Threads \ {t} : InFlight(x)]
                      ELSE [threads[o] EXCEPT !.overlap = @ \/ InFlight(o)]]
    /\ UNCHANGED <<user_states, user_genres, recommendations, buttons, catalogVars,
                   workerVars, calib_entered, last_batch, last_recs, last_call,
                   last_search>>

\* calib: on thread t: SELECT COUNT(*) ... shown=1 AND status IS NULL
calib_count(t) ==
    /\ threads[t].pc = "count"
    /\ threads' = [threads EXCEPT ![t].pc = "select",
                                  ![t].remaining =
                                      remaining(calibration_items, threads[t].user)]
    /\ UNCHANGED <<user_states, storeVars, buttons, catalogVars, workerVars,
                   calib_entered, resends, last_batch, last_recs, last_call,
                   last_search>>

\* calib: on thread t: the test "remaining == 0 and get_state(...) ==
\* 'calibration'" and the SELECT of get_next_calibration_batch
calib_select(t) ==
    /\ threads[t].pc = "select"
    /\ threads' = [threads EXCEPT ![t] =
           IF threads[t].remaining = 0 /\ user_states[threads[t].user] = "calibration"
           THEN [@ EXCEPT !.pc = "send",
                          !.batch = get_next_calibration_batch(
                                        calibration_items, threads[t].user,
                                        BatchLimit)]
           ELSE [@ EXCEPT !.pc = "idle"]]
    /\ UNCHANGED <<user_states, storeVars, buttons, catalogVars, workerVars,
                   calib_entered, resends, last_batch, last_recs, last_call,
                   last_search>>

\* calib: on thread t: the UPDATE of get_next_calibration_batch and the rest
\* of send_calibration_batch
calib_send(t) ==
    LET u == threads[t].user
        batch == threads[t].batch IN
    /\ threads[t].pc = "send"
    /\ calibration_items' = mark_shown(calibration_items, batch)
    /\ IF batch = <<>>
       THEN /\ user_states' = [user_states EXCEPT ![u] = NULL]
            /\ buttons' = buttons
       ELSE /\ user_states' = user_states
            /\ buttons' = [buttons EXCEPT ![u] = @ \cup CalibButtons(batch)]
    /\ threads' = [threads EXCEPT ![t].pc = "idle", ![t].sent = batch,
                                  ![t].batch = <<>>]
    /\ UNCHANGED <<favorites, user_genres, user_feedback, subscriptions,
                   recommendations, catalogVars, workerVars, calib_entered, resends,
                   last_batch, last_recs, last_call, last_search>>

\* /mysubs
handle_mysubs(u) ==
    /\ subscriptions' = [i \in 1..Len(subscriptions) |->
           IF subscriptions[i].user_id = u
           THEN [subscriptions[i] EXCEPT !.has_new = 0] ELSE subscriptions[i]]
    /\ buttons' = [buttons EXCEPT ![u] = @ \cup {Btn("subs_add", 0, NULL)}]
    /\ UNCHANGED <<user_states, favorites, user_genres, user_feedback,
                   calibration_items, recommendations, catalogVars, workerVars,
                   calib_entered, resends, last_batch, last_recs, callVars>>

\* callback subs_add
handle_callback_subs_add(u) ==
    /\ Btn("subs_add", 0, NULL) \in buttons[u]
    /\ user_states' = [user_states EXCEPT ![u] = "await_subscribe_title"]
    /\ UNCHANGED <<storeVars, buttons, catalogVars, workerVars, calib_entered, resends,
                   last_batch, last_recs, callVars>>

\* free text in state await_subscribe_title; result: what search_tmdb_multi
\* returns, ok: the details call succeeds
handle_await_subscribe_title(u, result, ok) ==
    /\ user_states[u] = "await_subscribe_title"
    /\ IF result = NotFound \/ result.media_type # "tv"
       THEN /\ ok
            /\ UNCHANGED <<user_states, subscriptions>>
       ELSE /\ Len(subscriptions) < MaxSubs
            /\ subscriptions' = add_subscription_for_tv(subscriptions, u, result.id,
                                     details_last_air_date(result.id, ok))
            /\ user_states' = [user_states EXCEPT ![u] = NULL]
    /\ UNCHANGED <<favorites, user_genres, user_feedback, calibration_items,
                   recommendations, buttons, catalogVars, workerVars,
                   calib_entered, resends, last_batch, last_recs, callVars>>

(* -------------------------------------------------------- recommendations *)
CurrentYear == 2026          \* datetime.utcnow().year
OldYear == 1990
Jitter == {0 - 3, 3}         \* random.uniform(-0.3, 0.3): its extremes, in tenths
RecLimit == 5                \* send_recommendations(..., limit=5)

exclude_statuses ==
    {"favorite", "watched", "rec_seen", "rec_seen_like", "rec_seen_dislike",
     "rec_dislike"}

\* variant: exclusion by net feedback weight at or below -2
RECURSIVE SumWeightsOf(_, _)
SumWeightsOf(fb, rows) ==
    IF rows = {} THEN 0
    ELSE LET e == CHOOSE x \in rows : TRUE IN
         e.weight * CopiesIn(e, fb) + SumWeightsOf(fb, rows \ {e})

excluded_tmdb_ids_by_weight(fb) ==
    {i \in {e.tmdb_id : e \in BagToSet(fb)} :
        SumWeightsOf(fb, {x \in BagToSet(fb) : x.tmdb_id = i}) <= 0 - 2}

\* variant: only the statuses of a dislike exclude a title
excluded_tmdb_ids_disliked(fb) ==
    {e.tmdb_id : e \in {x \in BagToSet(fb) :
                           x.status \in {"rec_seen_dislike", "rec_dislike"}}}

\* ids with at least one feedback row whose status is in exclude_statuses
excluded_tmdb_ids(fb) ==
    {e.tmdb_id : e \in {x \in BagToSet(fb) : x.status \in exclude_statuses}}

RECURSIVE SumWeights(_, _)
SumWeights(fb, rows) ==
    IF rows = {} THEN 0
    ELSE LET e == CHOOSE x \in rows : TRUE IN
         e.weight * CopiesIn(e, fb) + SumWeights(fb, rows \ {e})

\* get_feedback_weights(user).get(cid, 0)
feedback_weight(fb, cid) ==
    SumWeights(fb, {x \in BagToSet(fb) : x.tmdb_id = cid})

\* the aggregation loop without the test "cid in favorites_ids"
RECURSIVE Aggregate_keep_favorites(_, _, _, _)
Aggregate_keep_favorites(acc, items, favIds, exclIds) ==
    IF items = <<>> THEN acc
    ELSE LET it == Head(items)
             skip == it.id \in exclIds
             known == \E j \in 1..Len(acc) : acc[j].tmdb_id = it.id
             acc1 == IF skip THEN acc
                     ELSE IF known
                     THEN [j \in 1..Len(acc) |->
                              IF acc[j].tmdb_id = it.id
                              THEN [acc[j] EXCEPT !.freq = @ + 1] ELSE acc[j]]
                     ELSE Append(acc, [tmdb_id |-> it.id,
                                       media_type |-> ItemMediaType(it),
                                       genres |-> it.genre_ids,
                                       rating |-> it.vote_average,
                                       year |-> it.year, freq |-> 1, score |-> 0])
         IN Aggregate_keep_favorites(acc1, Tail(items), favIds, exclIds)

\* candidate_scores.setdefault(cid, {...}); data["freq"] += 1
RECURSIVE Aggregate(_, _, _, _)
Aggregate(acc, items, favIds, exclIds) ==
    IF items = <<>> THEN acc
    ELSE LET it == Head(items)
             skip == it.id \in favIds \/ it.id \in exclIds
             known == \E j \in 1..Len(acc) : acc[j].tmdb_id = it.id
             acc1 == IF skip THEN acc
                     ELSE IF known
                     THEN [j \in 1..Len(acc) |->
                              IF acc[j].tmdb_id = it.id
                              THEN [acc[j] EXCEPT !.freq = @ + 1] ELSE acc[j]]
                     ELSE Append(acc, [tmdb_id |-> it.id,
                                       media_type |-> ItemMediaType(it),
                                       genres |-> it.genre_ids,
                                       rating |-> it.vote_average,
                                       year |-> it.year, freq |-> 1, score |-> 0])
         IN Aggregate(acc1, Tail(items), favIds, exclIds)

\* variant: the loop over the favorites ends at the first favorite without
\* related titles
RECURSIVE AggregateFavs_break(_, _, _, _, _)
AggregateFavs_break(favs, i, okOf, exclIds, acc) ==
    IF i > Len(favs) THEN acc
    ELSE IF get_similar_and_recommended(favs[i].media_type, favs[i].tmdb_id,
                                        okOf[i]) = <<>>
    THEN acc
    ELSE AggregateFavs_break(favs, i + 1, okOf, exclIds,
             Aggregate(acc, get_similar_and_recommended(
                                favs[i].media_type, favs[i].tmdb_id, okOf[i]),
                       favorites_ids(favs), exclIds))

RECURSIVE AggregateFavs(_, _, _, _, _)
AggregateFavs(favs, i, okOf, exclIds, acc) ==
    IF i > Len(favs) THEN acc
    ELSE AggregateFavs(favs, i + 1, okOf, exclIds,
             Aggregate(acc, get_similar_and_recommended(
                                favs[i].media_type, favs[i].tmdb_id, okOf[i]),
                       favorites_ids(favs), exclIds))

recency_bonus(year) ==
    IF year = 0 THEN 0
    ELSE LET age == Max(0, CurrentYear - year) IN
         IF age <= 10 THEN 40
         ELSE IF age <= 20 THEN 20
         ELSE IF year >= OldYear THEN 5
         ELSE 0 - 20

ignore_penalty(meta) ==
    IF meta.shown_count >= 1 /\ (meta.last_action = NULL \/ meta.last_action = "shown")
    THEN 0 - 40 ELSE 0

\* the score in tenths; popularity is absent from the catalog's items
score(data, genres, fb, meta, jit) ==
    23 * data.freq
    + 12 * Cardinality(data.genres \cap genres)
    + 10 * data.rating
    + 25 * feedback_weight(fb, data.tmdb_id)
    + recency_bonus(data.year)
    + ignore_penalty(meta)
    + jit

\* sorted(..., key=score, reverse=True): stable, descending
RECURSIVE InsertDesc(_, _)
InsertDesc(sorted, x) ==
    IF sorted = <<>> THEN <<x>>
    ELSE IF Head(sorted).score >= x.score
         THEN <<Head(sorted)>> \o InsertDesc(Tail(sorted), x)
         ELSE <<x>> \o sorted

RECURSIVE SortDesc(_, _)
SortDesc(acc, rest) ==
    IF rest = <<>> THEN acc ELSE SortDesc(InsertDesc(acc, Head(rest)), Tail(rest))

\* int(limit * 0.2)
max_old(limit) == Max(1, (limit * 2) \div 10)

\* the selection loop over ranked
RECURSIVE SelectRanked(_, _, _, _)
SelectRanked(ranked, limit, old_count, selected) ==
    IF ranked = <<>> THEN selected
    ELSE LET item == Head(ranked)
             old == item.year # 0 /\ item.year < OldYear IN
         IF old /\ old_count >= max_old(limit)
         THEN SelectRanked(Tail(ranked), limit, old_count, selected)
         ELSE IF Len(selected) + 1 >= limit
         THEN Append(selected, item)
         ELSE SelectRanked(Tail(ranked), limit,
                           IF old THEN old_count + 1 ELSE old_count,
                           Append(selected, item))

\* the aggregation loop over the favorites; okOf[i]: the endpoints that
\* answer for favorite i
candidate_scores(favs, fb, okOf) ==
    AggregateFavs(favs, 1, okOf, excluded_tmdb_ids(fb), <<>>)

\* scoring, sorting and selection; jit: candidate position -> jitter
rank_and_select(cands, genres, fb, metas, jit, limit) ==
    LET scored == [j \in 1..Len(cands) |->
                      [cands[j] EXCEPT !.score =
                          score(cands[j], genres, fb, metas[cands[j].tmdb_id],
                                jit[j])]]
    IN SelectRanked(SortDesc(<<>>, scored), limit, 0, <<>>)

build_recommendations(favs, genres, fb, metas, okOf, jit, limit) ==
    IF favs = <<>> THEN <<>>
    ELSE rank_and_select(candidate_scores(favs, fb, okOf), genres, fb, metas,
                         jit, limit)

\* every list build_recommendations(user_id, limit) can return in the current
\* store state, over the gateway's outcomes and the jitter drawn
BuildOutcomes(u, limit) ==
    IF favorites[u] = <<>> THEN {<<>>}
    ELSE UNION {{rank_and_select(cands, user_genres[u], user_feedback[u],
                                 recommendations[u], jit, limit) :
                    jit \in [1..Len(cands) -> Jitter]} :
                cands \in {candidate_scores(favorites[u], user_feedback[u], okOf) :
                              okOf \in OkVectors(favorites[u], 1)}}

\* no direct call of build_recommendations has been made
NoCall == [user |-> NULL, limit |-> 0, recs |-> <<>>]

\* build_recommendations(user_id, limit) called with a limit of the caller's
\* choice; the store is only read
call_build_recommendations(u, limit) ==
    /\ \E recs \in BuildOutcomes(u, limit) :
           last_call' = [user |-> u, limit |-> limit, recs |-> recs]
    /\ UNCHANGED <<user_states, storeVars, buttons, catalogVars, workerVars,
                   calib_entered, resends, last_batch, last_recs, last_search,
                   threads>>

\* variant: ON CONFLICT DO NOTHING, the count stays as it is
touch_recommendation_shown_insert_only(meta) ==
    IF meta.shown_count = 0 THEN [shown_count |-> 1, last_action |-> "shown"]
    ELSE meta

\* touch_recommendation_shown on one row (shown_count = 0: no row yet)
touch_recommendation_shown(meta) ==
    IF meta.shown_count = 0 THEN [shown_count |-> 1, last_action |-> "shown"]
    ELSE [meta EXCEPT !.shown_count = @ + 1]

\* set_recommendation_action on one row
set_recommendation_action(meta, action) ==
    IF meta.shown_count = 0 THEN [shown_count |-> 1, last_action |-> action]
    ELSE [meta EXCEPT !.last_action = action]

RecButtons(recs) ==
    {Btn("rec", recs[i].tmdb_id, a) : i \in 1..Len(recs), a \in {"fav", "seen", "ban"}}
    \cup {Btn("rec", recs[i].tmdb_id, "sub") :
             i \in {j \in 1..Len(recs) : recs[j].media_type = "tv"}}
    \cup {Btn("more_recs", 0, NULL)}

\* send_recommendations(chat_id, user_id, limit=5); recs: the list returned by
\* build_recommendations
send_recommendations(u, recs) ==
    LET ids == {recs[i].tmdb_id : i \in 1..Len(recs)} IN
    /\ \A i \in ids : recommendations[u][i].shown_count < MaxShown
    /\ last_recs' = [user |-> u,
                     fav_ids |-> favorites_ids(favorites[u]),
                     items |-> [i \in 1..Len(recs) |->
                                  [tmdb_id |-> recs[i].tmdb_id,
                                   media_type |-> recs[i].media_type,
                                   year |-> recs[i].year]]]
    /\ recommendations' = [recommendations EXCEPT ![u] =
           [i \in Ids |-> IF i \in ids THEN touch_recommendation_shown(@[i]) ELSE @[i]]]
    /\ buttons' = [buttons EXCEPT ![u] =
           IF recs = <<>> THEN @ ELSE @ \cup RecButtons(recs)]
    /\ UNCHANGED <<user_states, favorites, user_genres, user_feedback,
                   calibration_items, subscriptions, catalogVars, workerVars,
                   calib_entered, resends, last_batch, callVars>>

\* /recommend
handle_recommend(u) ==
    \E recs \in BuildOutcomes(u, RecLimit) : send_recommendations(u, recs)

\* callback more_recs
handle_callback_more_recs(u) ==
    /\ Btn("more_recs", 0, NULL) \in buttons[u]
    /\ \E recs \in BuildOutcomes(u, RecLimit) : send_recommendations(u, recs)

\* callback rec:<id>:fav; okMovie, okTv: the two details calls succeed
handle_callback_rec_fav(u, tmdb_id, okMovie, okTv) ==
    /\ Btn("rec", tmdb_id, "fav") \in buttons[u]
    /\ BagCardinality(user_feedback[u]) < Min(MaxFeedback, MaxRecFeedback)
    /\ okTv    \* the result of GET /tv/{id} is used for the title only
    /\ LET media_type == IF okMovie /\ tmdb_id \in MovieIds THEN "movie" ELSE "tv" IN
       favorites' = [favorites EXCEPT ![u] = add_favorite(@, tmdb_id, media_type)]
    /\ user_feedback' = [user_feedback EXCEPT ![u] = add_feedback(@, tmdb_id, "favorite")]
    /\ recommendations' = [recommendations EXCEPT ![u][tmdb_id] =
                              set_recommendation_action(@, "fav")]
    /\ UNCHANGED <<user_states, user_genres, calibration_items, subscriptions,
                   buttons, catalogVars, workerVars, calib_entered, resends, last_batch,
                   last_recs, callVars>>

\* callback rec:<id>:seen
handle_callback_rec_seen(u, tmdb_id) ==
    /\ Btn("rec", tmdb_id, "seen") \in buttons[u]
    /\ BagCardinality(user_feedback[u]) < Min(MaxFeedback, MaxRecFeedback)
    /\ user_feedback' = [user_feedback EXCEPT ![u] = add_feedback(@, tmdb_id, "watched")]
    /\ recommendations' = [recommendations EXCEPT ![u][tmdb_id] =
                              set_recommendation_action(@, "seen")]
    /\ buttons' = [buttons EXCEPT ![u] =
           @ \cup {Btn("seen_like", tmdb_id, "yes"), Btn("seen_like", tmdb_id, "no")}]
    /\ UNCHANGED <<user_states, favorites, user_genres, calibration_items,
                   subscriptions, catalogVars, workerVars, calib_entered, resends,
                   last_batch, last_recs, callVars>>

\* callback rec:<id>:ban
handle_callback_rec_ban(u, tmdb_id) ==
    /\ Btn("rec", tmdb_id, "ban") \in buttons[u]
    /\ BagCardinality(user_feedback[u]) < Min(MaxFeedback, MaxRecFeedback)
    /\ user_feedback' = [user_feedback EXCEPT ![u] =
                            add_feedback(@, tmdb_id, "rec_dislike")]
    /\ recommendations' = [recommendations EXCEPT ![u][tmdb_id] =
                              set_recommendation_action(@, "ban")]
    /\ UNCHANGED <<user_states, favorites, user_genres, calibration_items,
                   subscriptions, buttons, catalogVars, workerVars, calib_entered, resends,
                   last_batch, last_recs, callVars>>

\* callback rec:<id>:sub; ok: the details call succeeds
handle_callback_rec_sub(u, tmdb_id, ok) ==
    /\ Btn("rec", tmdb_id, "sub") \in buttons[u]
    /\ Len(subscriptions) < MaxSubs
    /\ subscriptions' = add_subscription_for_tv(subscriptions, u, tmdb_id,
                             details_last_air_date(tmdb_id, ok))
    /\ recommendations' = [recommendations EXCEPT ![u][tmdb_id] =
                              set_recommendation_action(@, "subscribe")]
    /\ UNCHANGED <<user_states, favorites, user_genres, user_feedback,
                   calibration_items, buttons, catalogVars, workerVars,
                   calib_entered, resends, last_batch, last_recs, callVars>>

\* callback seen_like:<id>:<yes|no>
handle_callback_seen_like(u, tmdb_id, ans) ==
    /\ Btn("seen_like", tmdb_id, ans) \in buttons[u]
    /\ BagCardinality(user_feedback[u]) < Min(MaxFeedback, MaxRecFeedback)
    /\ user_feedback' = [user_feedback EXCEPT ![u] =
           add_feedback(@, tmdb_id, IF ans = "yes" THEN "rec_seen_like"
                                                   ELSE "rec_seen_dislike")]
    /\ recommendations' = [recommendations EXCEPT ![u][tmdb_id] =
           set_recommendation_action(@, IF ans = "yes" THEN "like" ELSE "dislike")]
    /\ UNCHANGED <<user_states, favorites, user_genres, calibration_items,
                   subscriptions, buttons, catalogVars, workerVars, calib_entered, resends,
                   last_batch, last_recs, callVars>>

(* ---------------------------------------------------- subscription worker *)
\* SELECT DISTINCT user_id, tmdb_id, title, last_air_date FROM subscriptions
RECURSIVE Distinct(_, _)
Distinct(acc, rows) ==
    IF rows = <<>> THEN acc
    ELSE LET r == [user_id |-> Head(rows).user_id, tmdb_id |-> Head(rows).tmdb_id,
                   last_air_date |-> Head(rows).last_air_date] IN
         Distinct(IF r \in Range(acc) THEN acc ELSE Append(acc, r), Tail(rows))

\* variant: the UPDATE also filters on last_air_date=?, bound to the new value
update_subscription_last_air_date_same(subs, u, tmdb_id, last_air_date) ==
    [i \in 1..Len(subs) |->
        IF subs[i].user_id = u /\ subs[i].tmdb_id = tmdb_id
           /\ subs[i].last_air_date = last_air_date
        THEN [subs[i] EXCEPT !.last_air_date = last_air_date] ELSE subs[i]]

\* UPDATE subscriptions SET last_air_date=? WHERE user_id=? AND tmdb_id=?
update_subscription_last_air_date(subs, u, tmdb_id, last_air_date) ==
    [i \in 1..Len(subs) |->
        IF subs[i].user_id = u /\ subs[i].tmdb_id = tmdb_id
        THEN [subs[i] EXCEPT !.last_air_date = last_air_date] ELSE subs[i]]

\* UPDATE subscriptions SET has_new=1 WHERE user_id=? AND tmdb_id=?
mark_subscription_new(subs, u, tmdb_id) ==
    [i \in 1..Len(subs) |->
        IF subs[i].user_id = u /\ subs[i].tmdb_id = tmdb_id
        THEN [subs[i] EXCEPT !.has_new = 1] ELSE subs[i]]

\* cycle, outside a cycle.  ver: the catalog's change numbers when the cycle
\* began; rows: the number of subscriptions rows then; clean: every details
\* call of the cycle so far has succeeded; last: what the latest iteration did
NoCycle == [ver |-> [t \in TvIds |-> 0], rows |-> 0, clean |-> FALSE, last |-> "none"]

\* the worker wakes up and reads the rows of this cycle
worker_fetch ==
    /\ worker_pc = "sleep"
    /\ worker_pc' = "cycle"
    /\ worker_subs' = Distinct(<<>>, subscriptions)
    /\ cycle' = [ver |-> tmdb_ver, rows |-> Len(subscriptions), clean |-> TRUE,
                 last |-> "none"]
    /\ UNCHANGED <<user_states, storeVars, buttons, catalogVars, notified,
                   calib_entered, resends, last_batch, last_recs, callVars>>

\* variant: without "if not details: continue", details.get raises on None
worker_row_no_skip(ok, sent) ==
    /\ worker_pc = "cycle"
    /\ worker_subs # <<>>
    /\ LET row == Head(worker_subs)
           new_last_air_date == details_last_air_date(row.tmdb_id, ok)
           changed == new_last_air_date # NULL
                      /\ new_last_air_date # row.last_air_date IN
       /\ (~changed) => sent
       /\ subscriptions' =
              IF changed
              THEN mark_subscription_new(
                       update_subscription_last_air_date(
                           subscriptions, row.user_id, row.tmdb_id, new_last_air_date),
                       row.user_id, row.tmdb_id)
              ELSE subscriptions
       /\ notified' =
              IF changed /\ sent
              THEN Append(notified, [user_id |-> row.user_id, tmdb_id |-> row.tmdb_id,
                                     last_air_date |-> new_last_air_date,
                                     ver |-> tmdb_ver[row.tmdb_id],
                                     stored |-> row.last_air_date])
              ELSE notified
       /\ IF (changed /\ ~sent) \/ ~ok
          THEN /\ worker_subs' = <<>>
               /\ worker_pc' = "sleep"
               /\ cycle' = [NoCycle EXCEPT !.last = IF ok THEN "undelivered"
                                                    ELSE "failed"]
          ELSE /\ worker_subs' = Tail(worker_subs)
               /\ UNCHANGED worker_pc
               /\ cycle' = [cycle EXCEPT !.clean = @ /\ ok,
                                         !.last = IF ~ok THEN "failed"
                                                  ELSE IF changed THEN "notified"
                                                  ELSE "same"]
    /\ UNCHANGED <<user_states, favorites, user_genres, user_feedback,
                   calibration_items, recommendations, buttons, catalogVars,
                   calib_entered, resends, last_batch, last_recs, callVars>>

\* variant: bot.send_message before the two UPDATEs, which a failed delivery
\* then skips
worker_row_send_first(ok, sent) ==
    /\ worker_pc = "cycle"
    /\ worker_subs # <<>>
    /\ LET row == Head(worker_subs)
           new_last_air_date == details_last_air_date(row.tmdb_id, ok)
           changed == new_last_air_date # NULL
                      /\ new_last_air_date # row.last_air_date IN
       /\ (~changed) => sent
       /\ subscriptions' =
              IF changed /\ sent
              THEN mark_subscription_new(
                       update_subscription_last_air_date(
                           subscriptions, row.user_id, row.tmdb_id, new_last_air_date),
                       row.user_id, row.tmdb_id)
              ELSE subscriptions
       /\ notified' =
              IF changed /\ sent
              THEN Append(notified, [user_id |-> row.user_id, tmdb_id |-> row.tmdb_id,
                                     last_air_date |-> new_last_air_date,
                                     ver |-> tmdb_ver[row.tmdb_id],
                                     stored |-> row.last_air_date])
              ELSE notified
       /\ IF changed /\ ~sent
          THEN /\ worker_subs' = <<>>      \* except Exception: leaves the loop
               /\ worker_pc' = "sleep"
               /\ cycle' = [NoCycle EXCEPT !.last = "undelivered"]
          ELSE /\ worker_subs' = Tail(worker_subs)
               /\ UNCHANGED worker_pc
               /\ cycle' = [cycle EXCEPT !.clean = @ /\ ok,
                                         !.last = IF ~ok THEN "failed"
                                                  ELSE IF changed THEN "notified"
                                                  ELSE "same"]
    /\ UNCHANGED <<user_states, favorites, user_genres, user_feedback,
                   calibration_items, recommendations, buttons, catalogVars,
                   calib_entered, resends, last_batch, last_recs, callVars>>

\* one iteration of the for loop; ok: the details call succeeds,
\* sent: bot.send_message returns (otherwise it raises)
worker_row(ok, sent) ==
    /\ worker_pc = "cycle"
    /\ worker_subs # <<>>
    /\ LET row == Head(worker_subs)
           new_last_air_date == details_last_air_date(row.tmdb_id, ok)
           changed == new_last_air_date # NULL
                      /\ new_last_air_date # row.last_air_date IN
       /\ (~changed) => sent
       /\ subscriptions' =
              IF changed
              THEN mark_subscription_new(
                       update_subscription_last_air_date(
                           subscriptions, row.user_id, row.tmdb_id, new_last_air_date),
                       row.user_id, row.tmdb_id)
              ELSE subscriptions
       /\ notified' =
              IF changed /\ sent
              THEN Append(notified, [user_id |-> row.user_id, tmdb_id |-> row.tmdb_id,
                                     last_air_date |-> new_last_air_date,
                                     ver |-> tmdb_ver[row.tmdb_id],
                                     stored |-> row.last_air_date])
              ELSE notified
       /\ IF changed /\ ~sent
          THEN /\ worker_subs' = <<>>      \* except Exception: leaves the loop
               /\ worker_pc' = "sleep"
               /\ cycle' = [NoCycle EXCEPT !.last = "undelivered"]
          ELSE /\ worker_subs' = Tail(worker_subs)
               /\ UNCHANGED worker_pc
               /\ cycle' = [cycle EXCEPT !.clean = @ /\ ok,
                                         !.last = IF ~ok THEN "failed"
                                                  ELSE IF changed THEN "notified"
                                                  ELSE "same"]
    /\ UNCHANGED <<user_states, favorites, user_genres, user_feedback,
                   calibration_items, recommendations, buttons, catalogVars,
                   calib_entered, resends, last_batch, last_recs, callVars>>

\* the for loop is over: time.sleep(3600)
worker_sleep ==
    /\ worker_pc = "cycle"
    /\ worker_subs = <<>>
    /\ worker_pc' = "sleep"
    /\ cycle' = NoCycle
    /\ UNCHANGED <<user_states, storeVars, buttons, catalogVars, worker_subs,
                   notified, calib_entered, resends, last_batch, last_recs, callVars>>

\* the catalog gets a new last_air_date for a series
catalog_change(t, m) ==
    /\ tmdb_ver[t] < MaxChanges
    /\ m # tmdb_air[t]
    /\ tmdb_air' = [tmdb_air EXCEPT ![t] = m]
    /\ tmdb_ver' = [tmdb_ver EXCEPT ![t] = @ + 1]
    /\ UNCHANGED <<user_states, storeVars, buttons, workerVars, calib_entered, resends,
                   last_batch, last_recs, callVars>>

(* ------------------------------------------------------------------ Init *)
Init ==
    /\ user_states = [u \in Users |-> NULL]
    /\ favorites = [u \in Users |-> <<>>]
    /\ user_genres = [u \in Users |-> {}]
    /\ user_feedback = [u \in Users |-> EmptyBag]
    /\ calibration_items = <<>>
    /\ subscriptions = <<>>
    /\ recommendations = [u \in Users |->
                             [i \in Ids |-> [shown_count |-> 0, last_action |-> NULL]]]
    /\ buttons = [u \in Users |-> {}]
    /\ tmdb_air = [t \in TvIds |-> MarkerSeq[1]]
    /\ tmdb_ver = [t \in TvIds |-> 0]
    /\ worker_subs = <<>>
    /\ worker_pc = "sleep"
    /\ notified = <<>>
    /\ cycle = NoCycle
    /\ calib_entered = [u \in Users |-> FALSE]
    /\ resends = [u \in Users |-> 0]
    /\ last_batch = [pending |-> 0, rows |-> <<>>, was_shown |-> {}]
    /\ last_recs = [user |-> NULL, fav_ids |-> {}, items |-> <<>>]
    /\ last_call = NoCall
    /\ last_search = NoSearch
    /\ threads = [t \in Threads |-> Idle]

SearchOutcomes == SearchHits \cup {NotFound}
\* the free-text messages: the first n names of one list, by what each name
\* resolves to
Names == <<Hit(1, "movie"), NotFound, Hit(2, "movie"), Hit(3, "tv")>>
NameLists == {Take(Names, n) : n \in 1..(MaxNames + 1)}
Statuses == {"watched", "unseen", "favorite"}

Next ==
    \/ \E u \in Users : handle_start(u)
    \/ \E u \in Users, results \in NameLists : handle_await_favorites(u, results)
    \/ \E u \in Users, gid \in Genres : handle_callback_genre(u, gid)
    \/ \E u \in Users :
          \E okOf \in OkVectors(favorites[u], 1) :
              handle_callback_genre_done(u, okOf)
    \/ \E u \in Users, row_id \in 1..Len(calibration_items),
           status \in Statuses, ok \in BOOLEAN :
          handle_callback_calib(u, row_id, status, ok)
    \/ \E u \in Users : handle_mysubs(u)
    \/ \E u \in Users : handle_callback_subs_add(u)
    \/ \E u \in Users, result \in SearchOutcomes, ok \in BOOLEAN :
          handle_await_subscribe_title(u, result, ok)
    \/ \E u \in Users : handle_recommend(u)
    \/ \E u \in Users : handle_callback_more_recs(u)
    \/ \E u \in Users, i \in Ids, okMovie \in BOOLEAN, okTv \in BOOLEAN :
          handle_callback_rec_fav(u, i, okMovie, okTv)
    \/ \E u \in Users, i \in Ids : handle_callback_rec_seen(u, i)
    \/ \E u \in Users, i \in Ids : handle_callback_rec_ban(u, i)
    \/ \E u \in Users, i \in Ids, ok \in BOOLEAN : handle_callback_rec_sub(u, i, ok)
    \/ \E u \in Users, i \in Ids, ans \in {"yes", "no"} :
          handle_callback_seen_like(u, i, ans)
    \/ worker_fetch
    \/ \E ok \in BOOLEAN, sent \in BOOLEAN : worker_row(ok, sent)
    \/ worker_sleep
    \/ \E t \in TvIds, m \in Markers \cup {NULL} : catalog_change(t, m)

Spec == Init /\ [][Next]_vars

\* onboarding and calibration only
NextOnboarding ==
    \/ \E u \in Users : handle_start(u)
    \/ \E u \in Users, results \in NameLists : handle_await_favorites(u, results)
    \/ \E u \in Users :
          \E okOf \in OkVectors(favorites[u], 1) :
              handle_callback_genre_done(u, okOf)
    \/ \E u \in Users, row_id \in 1..Len(calibration_items),
           status \in Statuses, ok \in BOOLEAN :
          handle_callback_calib(u, row_id, status, ok)

SpecOnboarding == Init /\ [][NextOnboarding]_vars

(* ------------------------------------------------- calibration: claims *)
CalibResponse(u, r, s) ==
    handle_callback_calib(u, r, s, TRUE) \/ handle_callback_calib(u, r, s, FALSE)

\* C4: re-sending a calibration response with the status the row already has
\* leaves the feedback log and the favorites as they were.
C4_ResendIsNoOp ==
    [][\A u \in Users, r \in 1..Len(calibration_items), s \in Statuses :
         (calibration_items[r].status = s /\ CalibResponse(u, r, s))
            => (user_feedback' = user_feedback /\ favorites' = favorites)]_vars

\* C5: once the status of a calibration row is set, no later step changes it.
C5_StatusSetOnce ==
    [][\A r \in 1..Len(calibration_items) :
         calibration_items[r].status # NULL
            => calibration_items'[r].status = calibration_items[r].status]_vars

\* C6: a row whose shown flag is 1 keeps it, and no batch returned by
\* get_next_calibration_batch contains a row that was already shown.
C6_ShownOnce ==
    [][/\ \A r \in 1..Len(calibration_items) :
            calibration_items[r].shown = 1 => calibration_items'[r].shown = 1
       /\ last_batch'.was_shown = {}]_vars

\* a later batch was returned while rows of an earlier batch are shown
C6_Witness ==
    /\ last_batch.rows # <<>>
    /\ last_batch.pending = 0
    /\ \E r \in 1..Len(calibration_items) :
          /\ calibration_items[r].shown = 1
          /\ calibration_items[r].status # NULL
          /\ r \notin Range(last_batch.rows)

\* C7: a batch request made while a shown candidate of the user is unanswered
\* returns the empty batch (and so marks no row as shown).
C7_NoBatchWhilePending == last_batch.pending > 0 => last_batch.rows = <<>>

\* the onboarding state of the spec, read off user_states and favorites
OnboardingState(u) ==
    CASE user_states[u] = "await_favorites" -> "CollectingFavorites"
      [] user_states[u] = "genre_select" -> "SelectingGenres"
      [] user_states[u] = "calibration" -> "Calibrating"
      [] OTHER -> IF count_favorites(u) = 0 THEN "New" ELSE "Ready"

Rank(st) ==
    CASE st = "New" -> 0
      [] st = "CollectingFavorites" -> 1
      [] st = "SelectingGenres" -> 2
      [] st = "Calibrating" -> 3
      [] st = "Ready" -> 4

\* C8: no step takes a user to an earlier onboarding state.
C8_ForwardOnly ==
    [][\A u \in Users : Rank(OnboardingState(u)') >= Rank(OnboardingState(u))]_vars

\* C9: with 1 or 2 favorites the state stays await_favorites, and a step
\* reaches genre_select or a later state only with at least 3 favorites.
C9_ThresholdGate ==
    [][\A u \in Users :
         /\ (count_favorites(u) \in 1..(FavThreshold - 1)
                /\ user_states[u] = "await_favorites")
               => user_states'[u] = "await_favorites"
         /\ (user_states'[u] # user_states[u]
                /\ user_states'[u] \in {"genre_select", "calibration", NULL})
               => count_favorites(u)' >= FavThreshold]_vars

(* ----------------------------------- calibration: the user who answers *)
\* The user onboards, presses "done" once, and from then on only answers
\* the candidates presented to them, each once.
Onboard(u) ==
    /\ ~calib_entered[u]
    /\ \/ (user_states[u] = NULL /\ handle_start(u))
       \/ \E results \in NameLists : handle_await_favorites(u, results)
       \/ \E gid \in Genres : (user_states[u] = "genre_select"
                                 /\ handle_callback_genre(u, gid))
       \/ \E okOf \in OkVectors(favorites[u], 1) :
             (user_states[u] = "genre_select" /\ handle_callback_genre_done(u, okOf))

Answer(u) ==
    \E row_id \in 1..Len(calibration_items), status \in Statuses, ok \in BOOLEAN :
        /\ calibration_items[row_id].status = NULL
        /\ handle_callback_calib(u, row_id, status, ok)

NextAnswering == \E u \in Users : Onboard(u) \/ Answer(u)

SpecAnswering ==
    Init /\ [][NextAnswering]_vars /\ \A u \in Users : WF_vars(Answer(u))

NextWatcher ==
    \/ \E u \in Users : handle_mysubs(u)
    \/ \E u \in Users : handle_callback_subs_add(u)
    \/ \E u \in Users, result \in SearchOutcomes, ok \in BOOLEAN :
          handle_await_subscribe_title(u, result, ok)
    \/ worker_fetch
    \/ \E ok \in BOOLEAN, sent \in BOOLEAN : worker_row(ok, sent)
    \/ worker_sleep
    \/ \E t \in TvIds, m \in Markers \cup {NULL} : catalog_change(t, m)

SpecWatcher == Init /\ [][NextWatcher]_vars

\* C2: a step in which a stored marker goes from NULL to a value sends no
\* notification.
C2_SilentBaseline ==
    [][\A i \in 1..Len(subscriptions) :
         (subscriptions[i].last_air_date = NULL
            /\ subscriptions'[i].last_air_date # NULL)
           => notified' = notified]_vars

\* notifications sent to user u for series t at the catalog's change number v
NotifiedFor(u, t, v) ==
    {i \in 1..Len(notified) :
        notified[i].user_id = u /\ notified[i].tmdb_id = t /\ notified[i].ver = v}

\* C3: at most one notification per (user, series) and change of the catalog
\* marker, and none when the fetched marker equals the marker read for the row.
C3_OneNotificationPerChange ==
    /\ \A u \in Users, t \in TvIds, v \in 0..MaxChanges :
          Cardinality(NotifiedFor(u, t, v)) <= 1
    /\ \A i \in 1..Len(notified) : notified[i].last_air_date # notified[i].stored

\* C13: every row read at the start of a cycle is processed: an iteration
\* leaves the rows after it on the worker's list.
C13_EveryRowProcessed ==
    [][worker_subs # <<>> => worker_subs' \in {worker_subs, Tail(worker_subs)}]_vars

\* an iteration of the worker's loop has run in this step
Iteration == worker_pc = "cycle" /\ worker_subs # <<>> /\ worker_subs' # worker_subs

\* every row of subscriptions is on the worker's list
AllRowsListed ==
    \A i \in 1..Len(subscriptions) :
        \E j \in 1..Len(worker_subs) :
            /\ worker_subs[j].user_id = subscriptions[i].user_id
            /\ worker_subs[j].tmdb_id = subscriptions[i].tmdb_id
            /\ worker_subs[j].last_air_date = subscriptions[i].last_air_date

\* C14: an iteration whose details call fails leaves subscriptions and the
\* notifications as they were and goes on to the next row; the cycle that
\* begins next reads every row again.
C14_FetchFailureSkipsRow ==
    [][/\ (Iteration /\ cycle'.last = "failed") =>
             /\ subscriptions' = subscriptions
             /\ notified' = notified
             /\ worker_pc' = "cycle"
             /\ worker_subs' = Tail(worker_subs)
       /\ (worker_pc = "sleep" /\ worker_pc' = "cycle") => AllRowsListed']_vars

\* the details call has just failed for the only row, whose stored marker
\* differs from the catalog's, and nothing was notified
C14_Witness ==
    /\ worker_pc = "cycle" /\ cycle.last = "failed"
    /\ Len(subscriptions) = 1
    /\ tmdb_air[subscriptions[1].tmdb_id] # NULL
    /\ subscriptions[1].last_air_date # tmdb_air[subscriptions[1].tmdb_id]
    /\ subscriptions[1].has_new = 0
    /\ notified = <<>>

\* the for loop of the worker has ended and the worker goes to sleep
CycleEnds == worker_pc = "cycle" /\ worker_subs = <<>> /\ worker_pc' = "sleep"

\* C15: at the end of a complete cycle in which every details call succeeded
\* and during which the catalog did not change, every subscription that
\* existed when the cycle began holds the catalog's marker of its series, when
\* that marker is not empty.
C15_MarkerFollowsCatalog ==
    [][(CycleEnds /\ cycle.clean /\ cycle.ver = tmdb_ver) =>
          \A i \in 1..cycle.rows :
              tmdb_air[subscriptions[i].tmdb_id] # NULL =>
                  subscriptions'[i].last_air_date = tmdb_air[subscriptions[i].tmdb_id]]_vars

\* a complete cycle is at its end, after the catalog of a followed series
\* changed and the cycle stored the new marker
C15_Witness ==
    /\ worker_pc = "cycle" /\ worker_subs = <<>>
    /\ cycle.clean /\ cycle.ver = tmdb_ver /\ cycle.last = "notified"
    /\ \E i \in 1..cycle.rows :
          /\ tmdb_ver[subscriptions[i].tmdb_id] > 0
          /\ subscriptions[i].last_air_date = tmdb_air[subscriptions[i].tmdb_id]
          /\ \E n \in 1..Len(notified) :
                /\ notified[n].tmdb_id = subscriptions[i].tmdb_id
                /\ notified[n].ver = tmdb_ver[subscriptions[i].tmdb_id]
                /\ notified[n].stored \in Markers

\* position of a marker in the order of dates, 0 for none
MarkerRank(m) ==
    IF m = NULL THEN 0 ELSE CHOOSE k \in 1..Len(MarkerSeq) : MarkerSeq[k] = m

\* C16: the stored marker of a subscription never decreases.
C16_MarkerNeverDecreases ==
    [][\A i \in 1..Len(subscriptions) :
          MarkerRank(subscriptions'[i].last_air_date)
              >= MarkerRank(subscriptions[i].last_air_date)]_vars

\* C17: there is at most one subscription row per (user, title id).
C17_OneRowPerSeries ==
    \A i, j \in 1..Len(subscriptions) :
        (subscriptions[i].user_id = subscriptions[j].user_id
           /\ subscriptions[i].tmdb_id = subscriptions[j].tmdb_id) => i = j

(* ------------------------------------------ recommendations: the claims *)
\* collecting favorites, /recommend and the buttons of a recommendation
NextReco ==
    \/ \E u \in Users : handle_start(u)
    \/ \E u \in Users, results \in NameLists : handle_await_favorites(u, results)
    \/ \E u \in Users : handle_recommend(u)
    \/ \E u \in Users : handle_callback_more_recs(u)
    \/ \E u \in Users, i \in Ids, okMovie \in BOOLEAN, okTv \in BOOLEAN :
          handle_callback_rec_fav(u, i, okMovie, okTv)
    \/ \E u \in Users, i \in Ids : handle_callback_rec_seen(u, i)
    \/ \E u \in Users, i \in Ids : handle_callback_rec_ban(u, i)
    \/ \E u \in Users, i \in Ids, ans \in {"yes", "no"} :
          handle_callback_seen_like(u, i, ans)

SpecReco == Init /\ [][NextReco]_vars

\* C1: no title id in the list returned by build_recommendations is in the
\* user's favorites at the time of the call.
C1_NoFavoriteRecommended ==
    \A i \in 1..Len(last_recs.items) :
        last_recs.items[i].tmdb_id \notin last_recs.fav_ids

\* title 2 is a favorite and is in the related titles of favorite 1, whose
\* fetch succeeded because title 5 of the same list was returned
C1_Witness ==
    /\ {1, 2} \subseteq last_recs.fav_ids
    /\ \E i \in 1..Len(last_recs.items) : last_recs.items[i].tmdb_id = 5

(* ------------------------------------- the candidate pool: the claims *)
\* the related titles ids a, a+1, ..., a+n-1, all movies
RelatedRun(a, n) == [k \in 1..n |-> Item(a + k - 1, FALSE, 2000)]
\* the results the gateway may hold for one favorite
RelatedLists == {RelatedRun(a, n) : a \in {1, 6}, n \in 0..MaxRelated}

\* the first genre_done of a user, over every content of the gateway
handle_callback_genre_done_any(u, lists) ==
    /\ ~calib_entered[u]
    /\ genre_done_with(u, lists, MaxPoolRows)

NextPool ==
    \/ \E u \in Users : handle_start(u)
    \/ \E u \in Users, results \in NameLists : handle_await_favorites(u, results)
    \/ \E u \in Users :
          \E lists \in [1..Len(favorites[u]) -> RelatedLists] :
              handle_callback_genre_done_any(u, lists)

SpecPool == Init /\ [][NextPool]_vars

\* the rows of calibration_items of user u
CalibRowsOf(u) == {r \in 1..Len(calibration_items) : calibration_items[r].user_id = u}

\* C11: the calibration candidate pool built for a user never holds more than
\* 9 rows.
C11_PoolAtMostNine == \A u \in Users : Cardinality(CalibRowsOf(u)) <= 9

\* C12: a user's calibration candidate rows hold each title id at most once.
C12_PoolIdsUnique ==
    \A u \in Users : \A r1, r2 \in CalibRowsOf(u) :
        calibration_items[r1].tmdb_id = calibration_items[r2].tmdb_id => r1 = r2

\* every row of (u, t), stored or read for the current cycle, holds the
\* marker the gateway reports for t
Settled(u, t) ==
    /\ \A i \in 1..Len(subscriptions) :
           (subscriptions[i].user_id = u /\ subscriptions[i].tmdb_id = t)
               => subscriptions[i].last_air_date = tmdb_air[t]
    /\ \A j \in 1..Len(worker_subs) :
           (worker_subs[j].user_id = u /\ worker_subs[j].tmdb_id = t)
               => worker_subs[j].last_air_date = tmdb_air[t]

SubsOf(subs, u, t) ==
    {i \in 1..Len(subs) : subs[i].user_id = u /\ subs[i].tmdb_id = t}

\* the iteration for (u, t) in which bot.send_message raises
DeliveryFails(u, t) ==
    /\ worker_pc = "cycle" /\ worker_subs # <<>>
    /\ Head(worker_subs).user_id = u /\ Head(worker_subs).tmdb_id = t
    /\ cycle'.last = "undelivered"

\* a notification for (u, t) is sent in this step
Notifies(u, t) ==
    /\ Len(notified') > Len(notified)
    /\ notified'[Len(notified')].user_id = u
    /\ notified'[Len(notified')].tmdb_id = t

\* C30: the marker is stored before the notification is sent: an iteration
\* whose delivery fails leaves every row of the (user, series) with the
\* gateway's marker and flagged, and sends nothing; while the rows hold the
\* gateway's marker no notification is sent for the (user, series), and they
\* keep holding it until the gateway's marker changes or a row is added.
C30_FailedDeliveryNotRetried ==
    [][\A u \in Users, t \in TvIds :
          /\ DeliveryFails(u, t)
                => /\ Settled(u, t)'
                   /\ notified' = notified
                   /\ \A i \in SubsOf(subscriptions', u, t) :
                          subscriptions'[i].has_new = 1
          /\ Settled(u, t) => ~Notifies(u, t)
          /\ (/\ Settled(u, t)
              /\ tmdb_air'[t] = tmdb_air[t]
              /\ SubsOf(subscriptions', u, t) = SubsOf(subscriptions, u, t))
                => Settled(u, t)']_vars

\* a delivery failed (the row is flagged and holds the gateway's marker, no
\* notification was ever sent), and a later complete cycle found the row
\* unchanged
C30_Witness ==
    /\ worker_pc = "cycle" /\ worker_subs = <<>>
    /\ cycle.clean /\ cycle.last = "same" /\ cycle.rows = 1
    /\ Len(subscriptions) = 1
    /\ subscriptions[1].has_new = 1
    /\ subscriptions[1].last_air_date \in Markers
    /\ subscriptions[1].last_air_date = tmdb_air[subscriptions[1].tmdb_id]
    /\ notified = <<>>

\* C18: add_favorite leaves the rows that exist as they are and never adds a
\* second row for a title id.
C18_AddFavoriteIdempotent ==
    [][\A u \in Users :
          /\ \A i \in 1..Len(favorites[u]) :
                i <= Len(favorites'[u]) /\ favorites'[u][i] = favorites[u][i]
          /\ \A i, j \in 1..Len(favorites'[u]) :
                favorites'[u][i].tmdb_id = favorites'[u][j].tmdb_id => i = j]_vars

\* title 2 became a favorite as a series through the 'fav' button; the text
\* that later added title 3 named title 2 as a movie before it
C18_Witness ==
    \E u \in Users :
        favorites[u] = <<[tmdb_id |-> 1, media_type |-> "movie"],
                         [tmdb_id |-> 2, media_type |-> "tv"],
                         [tmdb_id |-> 3, media_type |-> "tv"]>>

\* the ids of the related titles of the favorites whose calls succeed
SurfacedIds(favs, okOf) ==
    UNION {{it.id : it \in Range(TmdbResults(favs[i].media_type, favs[i].tmdb_id, k))} :
              i \in {j \in 1..Len(favs) : okOf[j] # {}}, k \in Endpoints}

\* C19: when every related-titles call fails for some favorites, the
\* candidates are those surfaced by the other favorites, as if the failing
\* favorites had no related titles.
C19_FailedFavoriteIsEmpty ==
    \A u \in Users :
        \A okOf \in [1..Len(favorites[u]) -> {{}, Endpoints}] :
            LET cands == candidate_scores(favorites[u], user_feedback[u], okOf) IN
            {cands[j].tmdb_id : j \in 1..Len(cands)}
                = (SurfacedIds(favorites[u], okOf) \ favorites_ids(favorites[u]))
                      \ excluded_tmdb_ids(user_feedback[u])

\* titles 1, 2 and 3 are favorites, nothing is excluded, and the latest list
\* holds title 4 (related to 3) and none of the titles related to 1
C19_Witness ==
    \E u \in Users :
        /\ last_recs.user = u
        /\ last_recs.fav_ids = {1, 2, 3}
        /\ user_feedback[u] = EmptyBag
        /\ {last_recs.items[i].tmdb_id : i \in 1..Len(last_recs.items)} = {4}

\* the user has blocked, disliked or marked as seen title i
Blocked(u, i) ==
    \E e \in BagToSet(user_feedback[u]) :
        e.tmdb_id = i /\ e.status \in {"rec_dislike", "rec_seen_dislike", "watched"}

\* C20: a title that the user has blocked, disliked or marked as seen is not
\* surfaced (its shown_count does not grow) by a later recommendation.
C20_BlockedNeverReturned ==
    [][\A u \in Users, i \in Ids :
          recommendations'[u][i].shown_count > recommendations[u][i].shown_count
              => ~Blocked(u, i)]_vars

\* title 2 is blocked and no favorite, and the latest list holds title 5 of
\* the same related-titles result but not title 2
C20_Witness ==
    \E u \in Users :
        /\ last_recs.user = u
        /\ Blocked(u, 2) /\ 2 \notin last_recs.fav_ids
        /\ ~(\E e \in BagToSet(user_feedback[u]) : e.tmdb_id = 2 /\ e.status = "favorite")
        /\ \E i \in 1..Len(last_recs.items) : last_recs.items[i].tmdb_id = 5
        /\ \A i \in 1..Len(last_recs.items) : last_recs.items[i].tmdb_id # 2

\* C23: build_recommendations returns the empty list when the user has no
\* favorites, and when every title the gateway surfaces is a favorite or is
\* blocked, disliked or marked as seen.
C23_EmptyWhenNothingLeft ==
    \A u \in Users :
        \A okOf \in OkVectors(favorites[u], 1) :
            LET cands == candidate_scores(favorites[u], user_feedback[u], okOf) IN
            (\/ favorites[u] = <<>>
             \/ \A i \in SurfacedIds(favorites[u], okOf) :
                    i \in favorites_ids(favorites[u]) \/ Blocked(u, i))
            => \A jit \in [1..Len(cands) -> Jitter] :
                   build_recommendations(favorites[u], user_genres[u],
                       user_feedback[u], recommendations[u], okOf, jit, RecLimit)
                   = <<>>

\* titles 1 and 2 are favorites, titles 5 and 6 are blocked, so every title
\* related to the favorites is excluded, and the latest list is empty
C23_Witness ==
    \E u \in Users :
        /\ last_recs.user = u
        /\ last_recs.fav_ids = {1, 2}
        /\ favorites_ids(favorites[u]) = {1, 2}
        /\ Blocked(u, 5) /\ Blocked(u, 6)
        /\ last_recs.items = <<>>
        /\ recommendations[u][5].shown_count >= 1

\* the ids of the list that the latest recommendation request surfaced
SurfacedNow == {last_recs'.items[k].tmdb_id : k \in 1..Len(last_recs'.items)}

\* C27: a recommendation request raises shown_count by exactly 1 for every
\* title it surfaces and for no other title, whatever the user did with the
\* title before, and no step lowers a shown_count.
C27_ShownCountPerSurfacing ==
    [][\A u \in Users :
          LET before(i) == recommendations[u][i].shown_count
              after(i) == recommendations'[u][i].shown_count IN
          /\ \A i \in Ids : after(i) >= before(i)
          /\ \A i \in Ids :
                 after(i) # before(i)
                     => after(i) = before(i) + 1 /\ i \in SurfacedNow
          /\ (\E i \in Ids : after(i) # before(i))
                 => \A i \in SurfacedNow : after(i) = before(i) + 1]_vars

\* title 2 was surfaced twice without any action of the user, and another
\* title was surfaced and then acted on
C27_Witness ==
    \E u \in Users :
        /\ recommendations[u][2] = [shown_count |-> 2, last_action |-> "shown"]
        /\ \E i \in Ids :
               /\ recommendations[u][i].shown_count >= 1
               /\ recommendations[u][i].last_action \notin {NULL, "shown"}

\* C29: a title of the latest recommendation list that becomes a favorite is
\* stored with the kind (movie or series) the recommended candidate had.
C29_FavoriteKeepsKind ==
    [][\A u \in Users : \A k \in 1..Len(last_recs.items) :
          LET it == last_recs.items[k] IN
          (/\ last_recs.user = u
           /\ it.tmdb_id \notin favorites_ids(favorites[u])
           /\ it.tmdb_id \in favorites_ids(favorites'[u]))
          => \E j \in 1..Len(favorites'[u]) :
                 /\ favorites'[u][j].tmdb_id = it.tmdb_id
                 /\ favorites'[u][j].media_type = it.media_type]_vars

\* ---------------------------------------------------------------------
\* build_recommendations as a function of its limit: favorites are named,
\* genres are toggled, and the engine is called with every limit up to
\* MaxLimit.
NextEngine ==
    \E u \in Users :
        \/ handle_start(u)
        \/ \E results \in NameLists : handle_await_favorites(u, results)
        \/ \E gid \in Genres : handle_callback_genre(u, gid)
        \/ \E limit \in 0..MaxLimit : call_build_recommendations(u, limit)

SpecEngine == Init /\ [][NextEngine]_vars

OldTitles(recs) ==
    {i \in 1..Len(recs) : recs[i].year # 0 /\ recs[i].year < OldYear}

SurfacedBy(favs, okOf, id) ==
    {i \in 1..Len(favs) :
        \E it \in Range(get_similar_and_recommended(
                            favs[i].media_type, favs[i].tmdb_id, okOf[i])) :
            it.id = id}

\* C25: for every aggregated candidate, freq is the number of distinct
\* favorites whose related-titles result holds the candidate; a candidate in
\* both lists of one favorite counts once for that favorite.
C25_FreqCountsFavorites ==
    \A u \in Users :
        \A okOf \in OkVectors(favorites[u], 1) :
            LET cands == candidate_scores(favorites[u], user_feedback[u], okOf) IN
            \A j \in 1..Len(cands) :
                cands[j].freq
                    = Cardinality(SurfacedBy(favorites[u], okOf, cands[j].tmdb_id))

\* ---------------------------------------------------------------------
\* Name resolution: the answers of GET /search/multi are explicit.
Person == Hit(7, "person")
SearchAnswers ==
    {Failed, Found(<<>>), Found(<<Person>>), Found(<<Person, Hit(1, "movie")>>),
     Found(<<Hit(2, "movie")>>), Found(<<Hit(3, "tv"), Hit(1, "movie")>>)}

RECURSIVE AnswerLists(_)
AnswerLists(n) ==
    IF n = 0 THEN {<<>>}
    ELSE {<<a>> \o rest : a \in SearchAnswers, rest \in AnswerLists(n - 1)}

NextSearch ==
    \E u \in Users :
        \/ handle_start(u)
        \/ \E n \in 1..MaxTitles : \E answers \in AnswerLists(n) :
               handle_await_favorites_answers(u, answers)
        \/ \E gid \in Genres : handle_callback_genre(u, gid)

SpecSearch == Init /\ [][NextSearch]_vars

\* C24: when a title name is resolved, "no title matches" is reported to the
\* caller as a result that differs from the one for "the gateway call
\* failed", and so does the reply to the user.
C24_NotFoundIsNotFailure ==
    \A i, j \in 1..Len(last_search.answers) :
        (last_search.answers[i] = Found(<<>>) /\ last_search.answers[j] = Failed)
            => /\ last_search.results[i] # last_search.results[j]
               /\ last_search.replies[i] # last_search.replies[j]

\* ---------------------------------------------------------------------
\* Calibration with the calib: callbacks on the bot's worker threads.
\* the response pressed is "watched"; a callback goes to the first free worker
SeenStatuses == {"watched"}
FirstFree(t) == ~InFlight(t) /\ (t = "t2" => InFlight("t1"))

NextThreads ==
    \/ \E u \in Users : handle_start(u)
    \/ \E u \in Users, results \in NameLists : handle_await_favorites(u, results)
    \/ \E u \in Users :
          \E okOf \in OkVectors(favorites[u], 1) :
              handle_callback_genre_done(u, okOf)
    \/ \E t \in Threads, u \in Users, row_id \in 1..Len(calibration_items),
           status \in SeenStatuses :
          FirstFree(t) /\ calib_store(t, u, row_id, status, TRUE)
    \/ \E t \in Threads : calib_count(t)
    \/ \E t \in Threads : calib_select(t)
    \/ \E t \in Threads : calib_send(t)

SpecThreads == Init /\ [][NextThreads]_vars

\* C26: when two calibration responses of one user are handled at the same
\* time, at most one of the two handlers presents a next batch, a batch has at
\* most 3 rows, and no row is presented by both.
C26_ConcurrentAsSequential ==
    \A t1, t2 \in Threads :
        (/\ t1 # t2
         /\ threads[t1].overlap /\ threads[t2].overlap
         /\ threads[t1].user = threads[t2].user)
        => /\ threads[t1].sent = <<>> \/ threads[t2].sent = <<>>
           /\ Len(threads[t1].sent) <= BatchLimit
           /\ Range(threads[t1].sent) \cap Range(threads[t2].sent) = {}

\* ---------------------------------------------------------------------
\* The user who answers (Onboard, Answer) and who may use /mysubs and its
\* add-subscription prompt at any time.
NextPrompt ==
    \E u \in Users :
        \/ Onboard(u)
        \/ Answer(u)
        \/ handle_mysubs(u)
        \/ handle_callback_subs_add(u)
        \/ \E result \in SearchOutcomes, ok \in BOOLEAN :
               handle_await_subscribe_title(u, result, ok)

SpecPrompt == Init /\ [][NextPrompt]_vars

\* C28: the add-subscription prompt used during calibration leaves the user
\* in Calibrating: while a candidate of the user is unanswered, the stored
\* state is "calibration", or "await_subscribe_title" while the prompt is open.
C28_PromptKeepsCalibrating ==
    \A u \in Users :
        (/\ calib_entered[u]
         /\ \E r \in CalibRowsOf(u) : calibration_items[r].status = NULL)
        => user_states[u] \in {"calibration", "await_subscribe_title"}

\* ---------------------------------------------------------------------
\* Every source of feedback: the user onboards and answers each calibration
\* candidate once, asks for recommendations and presses their buttons; the
\* favorites are named in one message and the gateway answers every call.
AllOk(u) == [i \in 1..Len(favorites[u]) |-> Endpoints]

\* /recommend when the gateway answers every call
handle_recommend_ok(u) ==
    LET cands == candidate_scores(favorites[u], user_feedback[u], AllOk(u)) IN
    \E jit \in [1..Len(cands) -> Jitter] :
        send_recommendations(u,
            build_recommendations(favorites[u], user_genres[u], user_feedback[u],
                                  recommendations[u], AllOk(u), jit, RecLimit))

NextFeedback ==
    \E u \in Users :
        \/ user_states[u] = NULL /\ ~calib_entered[u] /\ handle_start(u)
        \/ handle_await_favorites(u, Names)
        \/ ~calib_entered[u] /\ handle_callback_genre_done(u, AllOk(u))
        \/ \E row_id \in 1..Len(calibration_items), status \in Statuses :
               /\ calibration_items[row_id].status = NULL
               /\ handle_callback_calib(u, row_id, status, TRUE)
        \/ handle_recommend_ok(u)
        \/ \E i \in Ids : handle_callback_rec_fav(u, i, TRUE, TRUE)
        \/ \E i \in Ids : handle_callback_rec_seen(u, i)
        \/ \E i \in Ids : handle_callback_rec_ban(u, i)
        \/ \E i \in Ids, ans \in {"yes", "no"} : handle_callback_seen_like(u, i, ans)

SpecFeedback == Init /\ [][NextFeedback]_vars

\* C31: every candidate that survives the exclusion of build_recommendations
\* has net feedback weight 0, whatever the gateway answers, so the feedback
\* term of the score is 0 for every title of a returned list.
C31_SurvivorsHaveNoWeight ==
    \A u \in Users :
        \A okOf \in OkVectors(favorites[u], 1) :
            LET cands == candidate_scores(favorites[u], user_feedback[u], okOf) IN
            \A j \in 1..Len(cands) :
                feedback_weight(user_feedback[u], cands[j].tmdb_id) = 0

\* title 5 was answered "unseen" in calibration and is in the latest list,
\* while another title has feedback of non-zero weight
C31_Witness ==
    \E u \in Users :
        /\ last_recs.user = u
        /\ \E k \in 1..Len(last_recs.items) : last_recs.items[k].tmdb_id = 5
        /\ \E e \in BagToSet(user_feedback[u]) : e.tmdb_id = 5 /\ e.status = "unseen"
        /\ \E e \in BagToSet(user_feedback[u]) : e.tmdb_id # 5 /\ e.weight # 0

====
